---- MODULE Spec2Model ----
(***************************************************************************)
(* RawMemory<T> and Vector<T> of advanced-vector/vector.h, and the second  *)
(* copy of the container (unnamed/part_000) whose Emplace, PopBack and     *)
(* Erase differ textually.                                                 *)
(*                                                                         *)
(* The heap is a finite set of blocks; a block is a sequence of slots; a   *)
(* slot is Raw (no object lives there) or holds the value of a live T.     *)
(* Every operation is one action.  An operation runs on a "machine"        *)
(* record m that carries the heap, the objects and a budget: the number of *)
(* steps that may throw (operator new, constructors and assignments of T)  *)
(* which succeed before one throws.                                        *)
(***************************************************************************)
EXTENDS Integers, Sequences, FiniteSets, TLC

\* ------------------------------------------------------------- bounds
MaxCap == 4        \* largest capacity of a vector
MaxLen == 3        \* largest size reached by free insertions into one vector
MaxBlocks == 3     \* blocks the allocator can hand out at the same time

\* ------------------------------------------------------------- values
Null == 0          \* nullptr
Raw == -2          \* an uninitialized slot
MovedFrom == -1    \* the value of a live T that has been moved from
DefaultVal == 0    \* the value of T()

Values == {1}
FreeValues == {1, 2}
SeqValues == {1, 2, 3, 99}

\* Two vectors side by side get half the capacity each.
MaxCap2 == MaxCap \div 2

Blocks == 1..MaxBlocks
Vecs == {"a", "b"}
Raws == {"r1", "r2"}
Temps == {"new_data", "rhs_copy", "tmp"}
Objs == Vecs \cup Raws \cup Temps

\* The element types that select the transfer policy and what can throw.
Types ==
    { [nothrowMove |-> TRUE,  copyable |-> TRUE],
      [nothrowMove |-> FALSE, copyable |-> TRUE],
      [nothrowMove |-> FALSE, copyable |-> FALSE] }

\* A budget of Unlimited never runs out; an operation on a vector of at most
\* len elements takes at most len + 2 steps that may throw.
Unlimited == 2 * MaxCap + 4

Budgets(len) == 0..(len + 1) \cup {Unlimited}

VARIABLES heap, data_, size_, live, T, impl, last, faults, ghost

vars == <<heap, data_, size_, live, T, impl, last, faults, ghost>>

\* ------------------------------------------------------------- machine
NoBlock == [alloc |-> FALSE, slots |-> <<>>]
EmptyRaw == [buffer_ |-> Null, capacity_ |-> 0]

Machine(f) ==
    [heap |-> heap, data_ |-> data_, size_ |-> size_, live |-> live,
     budget |-> f, threw |-> FALSE, faults |-> faults,
     leaks |-> {}, ctor |-> 0, dtor |-> 0, allocs |-> 0, frees |-> 0, ret |-> 0,
     tmp |-> Raw]

\* A step that may throw: it throws when the budget is used up.
Step(m) ==
    IF m.budget >= Unlimited THEN m
    ELSE IF m.budget = 0 THEN [m EXCEPT !.threw = TRUE]
    ELSE [m EXCEPT !.budget = @ - 1]

\* Undefined behaviour stays on record; a leak is reported by the operation.
UB == {"double_free", "destroy_raw", "assign_to_raw", "destroy_before_begin"}

\* assert(cond) in a build with assertions on: the program stops where it is.
AssertFailed == "assertion_failed"

Abort(m) == [m EXCEPT !.faults = @ \cup {AssertFailed}]

\* size_t arithmetic is modular; the model keeps 16 of its bits.
SizeMod == 2 ^ 16

Fault(m, f) ==
    IF f \in UB THEN [m EXCEPT !.faults = @ \cup {f}]
    ELSE [m EXCEPT !.leaks = @ \cup {f}]

Held(m) == {m.data_[o].buffer_ : o \in m.live}

FreeIds(m) == {id \in Blocks : ~m.heap[id].alloc /\ id \notin Held(m)}

CanAllocate(m) == FreeIds(m) # {}

FreshId(m) == CHOOSE id \in FreeIds(m) : \A o \in FreeIds(m) : id <= o

Get(m, b, i) == m.heap[b].slots[i + 1]

Put(m, b, i, v) == [m EXCEPT !.heap[b].slots[i + 1] = v]

IsLive(m, b, i) == Get(m, b, i) # Raw

\* ------------------------------------------------------------- RawMemory
\* explicit RawMemory(size_t capacity)
RawMemoryCtor(m, o, n) ==
    IF n = 0
    THEN [m EXCEPT !.data_[o] = EmptyRaw, !.live = @ \cup {o}]
    ELSE LET m1 == Step(m) IN
         IF m1.threw THEN m1
         ELSE LET id == FreshId(m1) IN
              [m1 EXCEPT !.heap[id] = [alloc |-> TRUE, slots |-> [i \in 1..n |-> Raw]],
                         !.data_[o] = [buffer_ |-> id, capacity_ |-> n],
                         !.live = @ \cup {o},
                         !.allocs = @ + 1]

\* RawMemory() = default
RawMemoryDefault(m, o) ==
    [m EXCEPT !.data_[o] = EmptyRaw, !.live = @ \cup {o}]

\* static void Deallocate(T* buf)
Deallocate(m, buf) ==
    IF buf = Null THEN m
    ELSE IF ~m.heap[buf].alloc THEN Fault(m, "double_free")
    ELSE LET m1 == IF \E i \in 1..Len(m.heap[buf].slots) : m.heap[buf].slots[i] # Raw
                   THEN Fault(m, "release_live") ELSE m
         IN [m1 EXCEPT !.heap[buf] = NoBlock, !.frees = @ + 1]

\* ~RawMemory()
RawMemoryDtor(m, o) ==
    LET m1 == Deallocate(m, m.data_[o].buffer_) IN
    [m1 EXCEPT !.data_[o] = EmptyRaw, !.live = @ \ {o}]

\* RawMemory(RawMemory&& other): the members are copied from other.
RawMemoryMoveCtor(m, o, other) ==
    [m EXCEPT !.data_[o] = [buffer_ |-> m.data_[other].buffer_,
                            capacity_ |-> m.data_[other].capacity_],
              !.live = @ \cup {o}]

\* A move assignment that leaves rhs with its handle
RawMemoryMoveAssignNoReset(m, o, rhs) ==
    [m EXCEPT !.data_[o] = m.data_[rhs]]

\* RawMemory& operator=(RawMemory&& rhs): four assignments in order.
RawMemoryMoveAssign(m, o, rhs) ==
    LET d1 == [m.data_ EXCEPT ![o].buffer_ = m.data_[rhs].buffer_]
        d2 == [d1 EXCEPT ![o].capacity_ = d1[rhs].capacity_]
        d3 == [d2 EXCEPT ![rhs].buffer_ = Null]
        d4 == [d3 EXCEPT ![rhs].capacity_ = 0]
    IN [m EXCEPT !.data_ = d4]

\* void RawMemory::Swap(RawMemory& other)
RawMemorySwap(m, o, other) ==
    [m EXCEPT !.data_[o] = m.data_[other], !.data_[other] = m.data_[o]]

\* std::swap(data_, other.data_): T tmp(move(x)); x = move(y); y = move(tmp);
StdSwapRaw(m, x, y) ==
    LET m1 == RawMemoryMoveCtor(m, "tmp", x)
        m2 == RawMemoryMoveAssign(m1, x, y)
        m3 == RawMemoryMoveAssign(m2, y, "tmp")
    IN RawMemoryDtor(m3, "tmp")

\* ------------------------------------------------------------- elements
\* new (p) T(...) once the constructor has returned
ConstructAt(m, b, i, v) ==
    LET m1 == IF IsLive(m, b, i) THEN Fault(m, "construct_over_live") ELSE m
    IN [Put(m1, b, i, v) EXCEPT !.ctor = @ + 1]

\* p->~T()
DestroyAt(m, b, i) ==
    LET m1 == IF IsLive(m, b, i) THEN m ELSE Fault(m, "destroy_raw")
    IN [Put(m1, b, i, Raw) EXCEPT !.dtor = @ + 1]

\* new (p) T(v) by the copy constructor, or from constructor arguments
CopyConstruct(m, b, i, v) ==
    LET m1 == Step(m) IN
    IF m1.threw THEN m1 ELSE ConstructAt(m1, b, i, v)

\* new (p) T() by value initialisation
ValueConstruct(m, b, i) == CopyConstruct(m, b, i, DefaultVal)

\* new (p) T(std::move(src[si])): throws only when the move constructor can
MoveConstruct(m, b, i, sb, si) ==
    LET m1 == IF T.nothrowMove THEN m ELSE Step(m) IN
    IF m1.threw THEN m1
    ELSE Put(ConstructAt(m1, b, i, Get(m1, sb, si)), sb, si, MovedFrom)

\* dst[i] = v by copy assignment
CopyAssign(m, b, i, v) ==
    LET m1 == Step(m) IN
    IF m1.threw THEN m1
    ELSE IF IsLive(m1, b, i) THEN Put(m1, b, i, v)
    ELSE Fault(Put(m1, b, i, v), "assign_to_raw")

\* dst[i] = std::move(src[si])
MoveAssign(m, b, i, sb, si) ==
    LET m1 == IF T.nothrowMove THEN m ELSE Step(m) IN
    IF m1.threw THEN m1
    ELSE LET m2 == IF IsLive(m1, b, i) THEN m1 ELSE Fault(m1, "assign_to_raw")
         IN Put(Put(m2, b, i, Get(m2, sb, si)), sb, si, MovedFrom)

\* ------------------------------------------------------------- <memory>
\* std::destroy_n(b + from, n)
RECURSIVE destroy_n(_, _, _, _)
destroy_n(m, b, from, n) ==
    IF n <= 0 THEN m
    ELSE destroy_n(DestroyAt(m, b, from), b, from + 1, n - 1)

\* std::uninitialized_copy_n(sb + so, n, b + o): the first k are done; on a
\* throw the k copies are destroyed and the exception goes on.
RECURSIVE uninitialized_copy_from(_, _, _, _, _, _, _)
uninitialized_copy_from(m, sb, so, n, b, o, k) ==
    IF k >= n THEN m
    ELSE LET m1 == CopyConstruct(m, b, o + k, Get(m, sb, so + k)) IN
         IF m1.threw THEN destroy_n(m1, b, o, k)
         ELSE uninitialized_copy_from(m1, sb, so, n, b, o, k + 1)

\* A copy loop that leaves its copies behind when one throws
RECURSIVE copy_loop(_, _, _, _, _, _)
copy_loop(m, sb, so, n, b, o) ==
    IF n <= 0 THEN m
    ELSE LET m1 == CopyConstruct(m, b, o, Get(m, sb, so)) IN
         IF m1.threw THEN m1
         ELSE copy_loop(m1, sb, so + 1, n - 1, b, o + 1)

uninitialized_copy_n(m, sb, so, n, b, o) ==
    uninitialized_copy_from(m, sb, so, n, b, o, 0)

\* std::uninitialized_move_n(sb + so, n, b + o)
RECURSIVE uninitialized_move_from(_, _, _, _, _, _, _)
uninitialized_move_from(m, sb, so, n, b, o, k) ==
    IF k >= n THEN m
    ELSE LET m1 == MoveConstruct(m, b, o + k, sb, so + k) IN
         IF m1.threw THEN destroy_n(m1, b, o, k)
         ELSE uninitialized_move_from(m1, sb, so, n, b, o, k + 1)

uninitialized_move_n(m, sb, so, n, b, o) ==
    uninitialized_move_from(m, sb, so, n, b, o, 0)

\* std::uninitialized_value_construct_n(b + o, n)
RECURSIVE uninitialized_value_construct_from(_, _, _, _, _)
uninitialized_value_construct_from(m, b, o, n, k) ==
    IF k >= n THEN m
    ELSE LET m1 == ValueConstruct(m, b, o + k) IN
         IF m1.threw THEN destroy_n(m1, b, o, k)
         ELSE uninitialized_value_construct_from(m1, b, o, n, k + 1)

uninitialized_value_construct_n(m, b, o, n) ==
    uninitialized_value_construct_from(m, b, o, n, 0)

\* std::move(b + first, b + lastx, b + dest): front to back, no roll back
RECURSIVE std_move(_, _, _, _, _)
std_move(m, b, first, lastx, dest) ==
    IF first >= lastx THEN m
    ELSE LET m1 == MoveAssign(m, b, dest, b, first) IN
         IF m1.threw THEN m1
         ELSE std_move(m1, b, first + 1, lastx, dest + 1)

\* std::move_backward(b + first, b + lastx, b + dlast): back to front
RECURSIVE move_backward(_, _, _, _, _)
move_backward(m, b, first, lastx, dlast) ==
    IF first >= lastx THEN m
    ELSE LET m1 == MoveAssign(m, b, dlast - 1, b, lastx - 1) IN
         IF m1.threw THEN m1
         ELSE move_backward(m1, b, first, lastx - 1, dlast - 1)

\* ------------------------------------------------------------- Vector
Buf(m, v) == m.data_[v].buffer_

\* size_t Vector::Capacity() const
Capacity(m, v) == m.data_[v].capacity_

\* size_t Vector::Size() const
Size(m, v) == m.size_[v]

\* Vector() noexcept = default
VectorDefault(m, v) ==
    [RawMemoryDefault(m, v) EXCEPT !.size_[v] = 0]

\* A constructor that throws and keeps the block of its data_ member
AbandonCtorKeepBlock(m, v) ==
    [m EXCEPT !.data_[v] = EmptyRaw, !.live = @ \ {v}, !.size_[v] = 0]

\* When a constructor body throws, the members already built are destroyed
\* and no Vector object exists.
AbandonCtor(m, v) ==
    [RawMemoryDtor(m, v) EXCEPT !.size_[v] = 0]

\* explicit Vector(size_t size)
VectorSized(m, v, n) ==
    LET m1 == RawMemoryCtor(m, v, n) IN
    IF m1.threw THEN m1
    ELSE LET m2 == [m1 EXCEPT !.size_[v] = n]
             m3 == uninitialized_value_construct_n(m2, Buf(m2, v), 0, n)
         IN IF m3.threw THEN AbandonCtor(m3, v) ELSE m3

\* Vector(const Vector& other)
VectorCopy(m, v, other) ==
    LET m1 == RawMemoryCtor(m, v, Size(m, other)) IN
    IF m1.threw THEN m1
    ELSE LET m2 == [m1 EXCEPT !.size_[v] = Size(m, other)]
             m3 == uninitialized_copy_n(m2, Buf(m2, other), 0, Size(m2, other),
                                        Buf(m2, v), 0)
         IN IF m3.threw THEN AbandonCtor(m3, v) ELSE m3

\* Swap that exchanges the buffers and forgets the sizes
SwapDataOnly(m, v, other) == StdSwapRaw(m, v, other)

\* void Vector::Swap(Vector& other): std::swap of data_, then of size_
Swap(m, v, other) ==
    LET m1 == StdSwapRaw(m, v, other) IN
    [m1 EXCEPT !.size_[v] = m1.size_[other], !.size_[other] = m1.size_[v]]

\* Vector(Vector&& other) noexcept
VectorMove(m, v, other) == Swap(VectorDefault(m, v), v, other)

\* ~Vector()
VectorDtor(m, v) ==
    LET m1 == destroy_n(m, Buf(m, v), 0, Size(m, v)) IN
    [RawMemoryDtor(m1, v) EXCEPT !.size_[v] = 0]

\* An assignment loop that assigns nothing
AssignNothing(m, v, rhs, i, n) == m

\* for (; i < n; ++i) data_[i] = rhs.data_[i];
RECURSIVE AssignLoop(_, _, _, _, _)
AssignLoop(m, v, rhs, i, n) ==
    IF i >= n THEN m
    ELSE LET m1 == CopyAssign(m, Buf(m, v), i, Get(m, Buf(m, rhs), i)) IN
         IF m1.threw THEN m1 ELSE AssignLoop(m1, v, rhs, i + 1, n)

\* Vector& operator=(const Vector& rhs)
CopyAssignVector(m, v, rhs) ==
    IF v = rhs THEN m
    ELSE IF Size(m, rhs) > Capacity(m, v)
    THEN LET m1 == VectorCopy(m, "rhs_copy", rhs) IN
         IF m1.threw THEN m1
         ELSE VectorDtor(Swap(m1, v, "rhs_copy"), "rhs_copy")
    ELSE IF Size(m, rhs) < Size(m, v)
    THEN LET m1 == AssignLoop(m, v, rhs, 0, Size(m, rhs)) IN
         IF m1.threw THEN m1
         ELSE [destroy_n(m1, Buf(m1, v), Size(m1, rhs), Size(m1, v) - Size(m1, rhs))
                  EXCEPT !.size_[v] = Size(m1, rhs)]
    ELSE LET m1 == AssignLoop(m, v, rhs, 0, Size(m, v)) IN
         IF m1.threw THEN m1
         ELSE LET m2 == uninitialized_copy_n(m1, Buf(m1, rhs), Size(m1, v),
                                             Size(m1, rhs) - Size(m1, v),
                                             Buf(m1, v), Size(m1, v))
              IN IF m2.threw THEN m2
                 ELSE [m2 EXCEPT !.size_[v] = Size(m2, rhs)]

\* A move assignment that copies
MoveAssignByCopy(m, v, rhs) == CopyAssignVector(m, v, rhs)

\* Vector& operator=(Vector&& rhs) noexcept
MoveAssignVector(m, v, rhs) == Swap(m, v, rhs)

\* std::is_nothrow_move_constructible_v<T> || !std::is_copy_constructible_v<T>
UseMoveAlways == TRUE

UseMove == T.nothrowMove \/ ~T.copyable

\* void UninitializedMoveOrCopy(begin, end, dest), as a count of elements
UninitializedMoveOrCopy(m, sb, so, n, b, o) ==
    IF UseMove THEN uninitialized_move_n(m, sb, so, n, b, o)
    ELSE uninitialized_copy_n(m, sb, so, n, b, o)

\* if (new_capacity <= data_.Capacity()) return;
ReserveNeededStrict(m, v, n) == n >= Capacity(m, v)

ReserveNeeded(m, v, n) == n > Capacity(m, v)

\* void Vector::Reserve(size_t new_capacity)
Reserve(m, v, n) ==
    IF ~ReserveNeeded(m, v, n) THEN m
    ELSE LET m1 == RawMemoryCtor(m, "new_data", n) IN
         IF m1.threw THEN m1
         ELSE LET nb == Buf(m1, "new_data")
                  m2 == UninitializedMoveOrCopy(m1, Buf(m1, v), 0, Size(m1, v), nb, 0)
                  m3 == IF m2.threw THEN m2
                        ELSE RawMemorySwap(destroy_n(m2, Buf(m2, v), 0, Size(m2, v)),
                                           v, "new_data")
              IN RawMemoryDtor(m3, "new_data")

\* void Vector::Resize(size_t new_size)
Resize(m, v, n) ==
    IF n = Size(m, v) THEN m
    ELSE IF n < Size(m, v)
    THEN [destroy_n(m, Buf(m, v), n, Size(m, v) - n) EXCEPT !.size_[v] = n]
    ELSE LET m1 == Reserve(m, v, n) IN
         IF m1.threw THEN m1
         ELSE LET m2 == uninitialized_value_construct_n(m1, Buf(m1, v), Size(m1, v),
                                                        n - Size(m1, v))
              IN IF m2.threw THEN m2 ELSE [m2 EXCEPT !.size_[v] = n]

\* ------------------------------------------------------------- insertion
\* The argument of an insertion: a value outside the vector, taken by
\* const T& (copied) or by T&& (moved).
Args(vals) == [kind : {"copy", "move"}, val : vals]

\* The argument v[i] of an insertion into v itself: a const T& to slot i of
\* the buffer v has when the call is made.
RefArgs(v) ==
    {[kind |-> "ref", val |-> i, blk |-> data_[v].buffer_] : i \in 0..(size_[v] - 1)}

\* What the argument refers to when it is read.
ArgValue(m, arg) ==
    IF arg.kind = "ref" THEN Get(m, arg.blk, arg.val) ELSE arg.val

\* new (p) T(std::forward<Args>(args)...)
ConstructFromArg(m, b, i, arg) ==
    IF arg.kind # "move" THEN CopyConstruct(m, b, i, ArgValue(m, arg))
    ELSE LET m1 == IF T.nothrowMove THEN m ELSE Step(m) IN
         IF m1.threw THEN m1 ELSE ConstructAt(m1, b, i, arg.val)

\* T tmp(std::forward<Args>(args)...): a local object, not a slot
TmpConstruct(m, arg) ==
    LET m1 == IF arg.kind = "move" /\ T.nothrowMove THEN m ELSE Step(m) IN
    IF m1.threw THEN m1
    ELSE [m1 EXCEPT !.ctor = @ + 1, !.tmp = ArgValue(m1, arg)]

\* An assignment *position = value that reads the argument, not a temporary
AssignFromArg(m, b, i, arg) ==
    LET m1 == IF T.nothrowMove THEN m ELSE Step(m) IN
    IF m1.threw THEN m1 ELSE Put(m1, b, i, ArgValue(m1, arg))

\* *position = std::move(tmp)
AssignFromTmp(m, b, i, arg) ==
    LET m1 == IF T.nothrowMove THEN m ELSE Step(m) IN
    IF m1.threw THEN m1
    ELSE IF IsLive(m1, b, i) THEN Put(m1, b, i, m1.tmp)
    ELSE Fault(Put(m1, b, i, m1.tmp), "assign_to_raw")

\* size_t new_capacity = size_ == 0 ? 1 : size_ * 2;
NewCapacityPlusOne(sz) == sz + 1

NewCapacity(sz) == IF sz = 0 THEN 1 ELSE sz * 2

\* A catch block that rethrows without destroying anything
CatchNothing(m, nb, pos, step) == m

\* The catch block of EmplaceRealloc, vector.h
CatchRealloc(m, nb, pos, step) ==
    IF step = 1 THEN destroy_n(m, nb, pos, 1)
    ELSE IF step = 2 THEN destroy_n(m, nb, 0, pos + 1)
    ELSE m

\* iterator Vector::EmplaceRealloc(const_iterator pos, Args&&... args)
EmplaceRealloc(m, v, pos, arg) ==
    LET sz == Size(m, v)
        m1 == RawMemoryCtor(m, "new_data", NewCapacity(sz))
    IN IF m1.threw THEN m1
       ELSE LET nb == Buf(m1, "new_data")
                ob == Buf(m1, v)
                c0 == ConstructFromArg(m1, nb, pos, arg)
                c1 == IF c0.threw THEN c0
                      ELSE UninitializedMoveOrCopy(c0, ob, 0, pos, nb, 0)
                c2 == IF c1.threw THEN c1
                      ELSE UninitializedMoveOrCopy(c1, ob, pos, sz - pos, nb, pos + 1)
                step == IF c0.threw THEN 0 ELSE IF c1.threw THEN 1 ELSE 2
                done == IF c2.threw THEN CatchRealloc(c2, nb, pos, step)
                        ELSE [RawMemorySwap(destroy_n(c2, ob, 0, sz), v, "new_data")
                                 EXCEPT !.size_[v] = sz + 1, !.ret = pos]
            IN RawMemoryDtor(done, "new_data")

\* The in-place branches of Emplace, vector.h
EmplaceInPlace(m, v, pos, arg) ==
    LET sz == Size(m, v)
        b == Buf(m, v)
    IN IF pos = sz
       THEN LET c == ConstructFromArg(m, b, pos, arg) IN
            IF c.threw THEN c ELSE [c EXCEPT !.size_[v] = sz + 1, !.ret = pos]
       ELSE LET t == TmpConstruct(m, arg) IN
            IF t.threw THEN t
            ELSE LET u == uninitialized_move_n(t, b, sz - 1, 1, b, sz)
                     w == IF u.threw THEN u ELSE move_backward(u, b, pos, sz - 1, sz)
                     x == IF w.threw THEN w ELSE AssignFromTmp(w, b, pos, arg)
                     y == IF x.threw THEN x
                          ELSE [x EXCEPT !.size_[v] = sz + 1, !.ret = pos]
                 IN [y EXCEPT !.dtor = @ + 1]

\* An Emplace that counts the new element even when it throws
EmplaceCountsFirst(m, v, pos, arg) ==
    LET r == IF Size(m, v) = Capacity(m, v) THEN EmplaceRealloc(m, v, pos, arg)
             ELSE EmplaceInPlace(m, v, pos, arg)
    IN IF r.threw THEN [r EXCEPT !.size_[v] = @ + 1] ELSE r

\* iterator Vector::Emplace(const_iterator pos, Args&&... args), vector.h
Emplace(m, v, pos, arg) ==
    IF Size(m, v) = Capacity(m, v) THEN EmplaceRealloc(m, v, pos, arg)
    ELSE EmplaceInPlace(m, v, pos, arg)

\* A catch block for part_000 that tests step == 2 as vector.h does
CatchStepTwo(m, nb, indx, step) ==
    IF step = 1 THEN DestroyAt(m, nb, indx)
    ELSE IF step = 2 THEN destroy_n(m, nb, 0, indx + 1)
    ELSE m

\* The catch block of the growth branch of Emplace, part_000
CatchRealloc2(m, nb, indx, step) ==
    IF step = 1 THEN DestroyAt(m, nb, indx)
    ELSE IF step > 1 THEN destroy_n(m, nb, 0, indx + 1)
    ELSE m

\* iterator Vector::Emplace(const_iterator pos, Args&&... args), part_000
Emplace2(m, v, indx, arg) ==
    IF Size(m, v) = Capacity(m, v)
    THEN LET sz == Size(m, v)
             m1 == RawMemoryCtor(m, "new_data", NewCapacity(sz))
         IN IF m1.threw THEN m1
            ELSE LET nb == Buf(m1, "new_data")
                     ob == Buf(m1, v)
                     c0 == ConstructFromArg(m1, nb, indx, arg)
                     c1 == IF c0.threw THEN c0
                           ELSE IF UseMove
                           THEN uninitialized_move_n(c0, ob, 0, indx, nb, 0)
                           ELSE uninitialized_copy_n(c0, ob, 0, indx, nb, 0)
                     c2 == IF c1.threw THEN c1
                           ELSE IF UseMove
                           THEN uninitialized_move_n(c1, ob, indx, sz - indx, nb, indx + 1)
                           ELSE uninitialized_copy_n(c1, ob, indx, sz - indx, nb, indx + 1)
                     step == IF c0.threw THEN 0
                             ELSE IF c1.threw THEN 1
                             ELSE IF UseMove THEN 2 ELSE 3
                     done == IF c2.threw THEN CatchRealloc2(c2, nb, indx, step)
                             ELSE [RawMemorySwap(destroy_n(c2, ob, 0, sz), v, "new_data")
                                      EXCEPT !.size_[v] = sz + 1, !.ret = indx]
                 IN RawMemoryDtor(done, "new_data")
    ELSE LET sz == Size(m, v)
             b == Buf(m, v)
         IN IF indx = sz
            THEN LET c == ConstructFromArg(m, b, sz, arg) IN
                 IF c.threw THEN c ELSE [c EXCEPT !.size_[v] = sz + 1, !.ret = indx]
            ELSE LET t == TmpConstruct(m, arg) IN
                 IF t.threw THEN t
                 ELSE LET u == uninitialized_move_n(t, b, sz - 1, 1, b, sz)
                          w == IF u.threw THEN u
                               ELSE move_backward(u, b, indx, sz - 1, sz)
                          x == IF w.threw THEN w ELSE AssignFromTmp(w, b, indx, arg)
                          y == IF x.threw THEN x
                               ELSE [x EXCEPT !.size_[v] = sz + 1, !.ret = indx]
                      IN [y EXCEPT !.dtor = @ + 1]

\* std::destroy_n(end() - 1, 1); --size_;  With size_ = 0 the object destroyed
\* would lie before the buffer and size_ wraps around.
DestroyLast(m, v) ==
    IF Size(m, v) = 0
    THEN [Fault(m, "destroy_before_begin") EXCEPT !.size_[v] = (0 - 1) % SizeMod]
    ELSE [destroy_n(m, Buf(m, v), Size(m, v) - 1, 1)
             EXCEPT !.size_[v] = Size(m, v) - 1]

\* void Vector::PopBack() noexcept, vector.h: assert(size_ > 0) comes first
PopBack(m, v) ==
    IF Size(m, v) = 0 THEN Abort(m) ELSE DestroyLast(m, v)

\* void Vector::PopBack() noexcept, part_000: no assertion
PopBack2(m, v) == DestroyLast(m, v)

\* Erase that drops the last element without shifting the tail
EraseNoShift(m, v, pos) == [PopBack(m, v) EXCEPT !.ret = pos]

\* iterator Vector::Erase(const_iterator pos), vector.h
Erase(m, v, pos) ==
    LET m1 == std_move(m, Buf(m, v), pos + 1, Size(m, v), pos) IN
    IF m1.threw THEN m1 ELSE [PopBack(m1, v) EXCEPT !.ret = pos]

\* iterator Vector::Erase(const_iterator pos), part_000
Erase2(m, v, indx) ==
    LET m1 == std_move(m, Buf(m, v), indx + 1, Size(m, v), indx) IN
    IF m1.threw THEN m1
    ELSE [destroy_n(m1, Buf(m1, v), Size(m1, v) - 1, 1)
             EXCEPT !.size_[v] = Size(m1, v) - 1, !.ret = indx]

\* ------------------------------------------------------------- state
\* The element sequence of vector v: slots [0, size_) of its buffer.
Contents(v) == [i \in 1..size_[v] |-> heap[data_[v].buffer_].slots[i]]

\* An operation is called when no undefined behaviour has happened and the
\* caller has taken note of the previous operation's outcome.
Healthy == faults = {} /\ last.op = "none"

\* What the last operation was and did: the object v it was called on, its
\* other operand w, its number argument n (the index for Insert), whether it
\* threw, whether it constructed any T, constructions minus destructions of
\* T, blocks allocated, blocks allocated minus blocks released, and what it
\* leaked.
NoLast ==
    [op |-> "none", v |-> "none", w |-> "none", n |-> 0, threw |-> FALSE,
     built |-> FALSE, objs |-> 0, allocs |-> 0, blocks |-> 0, leaks |-> {}]

NoGhost == [abs |-> <<>>, net |-> 0, scen |-> -1, pushes |-> -1, failed |-> FALSE]

\* The caller has seen the outcome of the operation; the next call can start.
Return ==
    /\ last.op # "none"
    /\ last' = NoLast
    /\ UNCHANGED <<heap, data_, size_, live, T, impl, faults, ghost>>

\* The state an operation leaves, and what it did.
Commit(m, op, v, w, n) ==
    /\ heap' = m.heap
    /\ data_' = m.data_
    /\ size_' = m.size_
    /\ live' = m.live
    /\ faults' = m.faults
    /\ last' = [op |-> op, v |-> v, w |-> w, n |-> n, threw |-> m.threw,
                built |-> m.ctor > 0, objs |-> m.ctor - m.dtor,
                allocs |-> m.allocs, blocks |-> m.allocs - m.frees,
                leaks |-> m.leaks]
    /\ UNCHANGED <<T, impl>>

Ready(f) == Healthy /\ CanAllocate(Machine(f))

\* ------------------------------------------------------------- operations
DoDefaultCtor(v) ==
    /\ Healthy /\ v \notin live
    /\ Commit(VectorDefault(Machine(0), v), "Vector()", v, v, 0)

DoSizedCtor(v, n, f) ==
    /\ Ready(f) /\ v \notin live
    /\ Commit(VectorSized(Machine(f), v, n), "Vector(n)", v, v, n)

DoCopyCtor(v, other, f) ==
    /\ Ready(f) /\ v \notin live /\ other \in live /\ T.copyable
    /\ Commit(VectorCopy(Machine(f), v, other), "Vector(const&)", v, other, 0)

DoMoveCtor(v, other, f) ==
    /\ Ready(f) /\ v \notin live /\ other \in live
    /\ Commit(VectorMove(Machine(f), v, other), "Vector(&&)", v, other, 0)

DoDtor(v) ==
    /\ Healthy /\ v \in live
    /\ Commit(VectorDtor(Machine(0), v), "~Vector", v, v, 0)

DoCopyAssign(v, rhs, f) ==
    /\ Ready(f) /\ v \in live /\ rhs \in live /\ T.copyable
    /\ Commit(CopyAssignVector(Machine(f), v, rhs), "=(const&)", v, rhs, 0)

DoMoveAssign(v, rhs, f) ==
    /\ Ready(f) /\ v \in live /\ rhs \in live
    /\ Commit(MoveAssignVector(Machine(f), v, rhs), "=(&&)", v, rhs, 0)

DoSwap(v, other, f) ==
    /\ Ready(f) /\ v \in live /\ other \in live
    /\ Commit(Swap(Machine(f), v, other), "Swap", v, other, 0)

DoReserve(v, n, f) ==
    /\ Ready(f) /\ v \in live
    /\ Commit(Reserve(Machine(f), v, n), "Reserve", v, v, n)

DoResize(v, n, f) ==
    /\ Ready(f) /\ v \in live
    /\ Commit(Resize(Machine(f), v, n), "Resize", v, v, n)

EmplaceOp(m, v, pos, arg) ==
    IF impl = 1 THEN Emplace(m, v, pos, arg) ELSE Emplace2(m, v, pos, arg)

EraseOp(m, v, pos) ==
    IF impl = 1 THEN Erase(m, v, pos) ELSE Erase2(m, v, pos)

PopBackOp(m, v) ==
    IF impl = 1 THEN PopBack(m, v) ELSE PopBack2(m, v)

\* A run follows Script call by call, or it is free (ghost.scen = -1).
Free == ghost.scen = -1

\* Insert(pos, value) for 0 <= pos <= size_; PushBack(value) is pos = size_.
CanInsert(v, pos, arg, cap) ==
    /\ v \in live
    /\ Free => size_[v] < MaxLen
    /\ pos \in 0..size_[v]
    /\ arg.kind # "move" => T.copyable
    /\ size_[v] = data_[v].capacity_ => NewCapacity(size_[v]) <= cap

DoInsert(v, pos, arg, f, cap) ==
    /\ Ready(f) /\ CanInsert(v, pos, arg, cap)
    /\ Commit(EmplaceOp(Machine(f), v, pos, arg), "Insert", v, v, pos)

DoPushBack(v, arg, f, cap) ==
    /\ Ready(f) /\ CanInsert(v, size_[v], arg, cap)
    /\ Commit(EmplaceOp(Machine(f), v, size_[v], arg), "PushBack", v, v, 0)

DoPopBack(v) ==
    /\ Healthy /\ v \in live /\ size_[v] > 0
    /\ Commit(PopBackOp(Machine(0), v), "PopBack", v, v, 0)

\* PopBack called whatever the size, its precondition size_ > 0 or not
DoPopBackAny(v) ==
    /\ Healthy /\ v \in live
    /\ Commit(PopBackOp(Machine(0), v), "PopBack", v, v, 0)

DoErase(v, pos, f) ==
    /\ Ready(f) /\ v \in live /\ pos \in 0..(size_[v] - 1)
    /\ Commit(EraseOp(Machine(f), v, pos), "Erase", v, v, 0)

\* ------------------------------------------------------------- two vectors
Init ==
    /\ heap = [id \in Blocks |-> NoBlock]
    /\ data_ = [o \in Objs |-> EmptyRaw]
    /\ size_ = [v \in Vecs \cup {"rhs_copy"} |-> 0]
    /\ live = {}
    /\ T \in Types
    /\ impl = 1
    /\ last = NoLast
    /\ faults = {}
    /\ ghost = NoGhost

VDefaultCtor == \E v \in Vecs : DoDefaultCtor(v) /\ UNCHANGED ghost

VSizedCtor ==
    \E v \in Vecs, n \in 0..MaxCap2, f \in Budgets(MaxCap2) :
        DoSizedCtor(v, n, f) /\ UNCHANGED ghost

VCopyCtor ==
    \E v \in Vecs, other \in Vecs, f \in Budgets(MaxCap2) :
        DoCopyCtor(v, other, f) /\ UNCHANGED ghost

VMoveCtor ==
    \E v \in Vecs, other \in Vecs, f \in {0, Unlimited} :
        DoMoveCtor(v, other, f) /\ UNCHANGED ghost

VDtor == \E v \in Vecs : DoDtor(v) /\ UNCHANGED ghost

VCopyAssign ==
    \E v \in Vecs, rhs \in Vecs, f \in Budgets(MaxCap2) :
        DoCopyAssign(v, rhs, f) /\ UNCHANGED ghost

VMoveAssign ==
    \E v \in Vecs, rhs \in Vecs, f \in {0, Unlimited} :
        DoMoveAssign(v, rhs, f) /\ UNCHANGED ghost

VSwap ==
    \E v \in Vecs, other \in Vecs, f \in {0, Unlimited} :
        DoSwap(v, other, f) /\ UNCHANGED ghost

VReserve ==
    \E v \in Vecs, n \in 0..MaxCap2, f \in Budgets(MaxCap2) :
        DoReserve(v, n, f) /\ UNCHANGED ghost

VResize ==
    \E v \in Vecs, n \in 0..MaxCap2, f \in Budgets(MaxCap2) :
        DoResize(v, n, f) /\ UNCHANGED ghost

VInsert ==
    \E v \in Vecs, pos \in 0..MaxCap2, arg \in Args(Values), f \in Budgets(MaxCap2) :
        DoInsert(v, pos, arg, f, MaxCap2) /\ UNCHANGED ghost

VPushBack ==
    \E v \in Vecs, arg \in Args(Values), f \in Budgets(MaxCap2) :
        DoPushBack(v, arg, f, MaxCap2) /\ UNCHANGED ghost

VPopBack == \E v \in Vecs : DoPopBack(v) /\ UNCHANGED ghost

VErase ==
    \E v \in Vecs, pos \in 0..MaxCap2, f \in Budgets(MaxCap2) :
        DoErase(v, pos, f) /\ UNCHANGED ghost

Next ==
    \/ VDefaultCtor \/ VSizedCtor \/ VCopyCtor \/ VMoveCtor \/ VDtor
    \/ VCopyAssign \/ VMoveAssign \/ VSwap \/ VReserve \/ VResize
    \/ VInsert \/ VPushBack \/ VPopBack \/ VErase
    \/ Return

Spec == Init /\ [][Next]_vars

\* ------------------------------------------------------------- one vector
\* One vector "a" under PushBack, Insert, Erase, PopBack and Reserve, next to
\* an abstract list (ghost.abs) that the same calls drive.  ghost.net counts
\* successful insertions minus removals; ghost.pushes counts the PushBack
\* calls while nothing but PushBack has been called; ghost.failed says that
\* some call has thrown; ghost.scen is the position in Script of a run that
\* makes exactly the calls of Script.
AbsInsert(s, i, x) == SubSeq(s, 1, i) \o <<x>> \o SubSeq(s, i + 1, Len(s))

AbsErase(s, i) == SubSeq(s, 1, i) \o SubSeq(s, i + 2, Len(s))

Script ==
    << [op |-> "Reserve", n |-> 2, x |-> 0],
       [op |-> "PushBack", n |-> 0, x |-> 1],
       [op |-> "PushBack", n |-> 0, x |-> 2],
       [op |-> "PushBack", n |-> 0, x |-> 3],
       [op |-> "Insert", n |-> 1, x |-> 99],
       [op |-> "Erase", n |-> 0, x |-> 0] >>

\* The call is the next one of Script, or the run follows no script.
Scripted(op, n, x) ==
    \/ Free
    \/ /\ ghost.scen \in 0..(Len(Script) - 1)
       /\ Script[ghost.scen + 1] = [op |-> op, n |-> n, x |-> x]

\* A scripted run moves on when the call returns and stops when it throws.
NextScen == IF Free THEN -1 ELSE IF last'.threw THEN -2 ELSE ghost.scen + 1

SeqVals == IF Free THEN FreeValues ELSE SeqValues

\* Vector<T> a; for each element type and each copy of the container
SeqInit ==
    /\ heap = [id \in Blocks |-> NoBlock]
    /\ data_ = [o \in Objs |-> EmptyRaw]
    /\ size_ = [v \in Vecs \cup {"rhs_copy"} |-> 0]
    /\ live = {"a"}
    /\ T \in Types
    /\ impl \in {1, 2}
    /\ last = NoLast
    /\ faults = {}
    /\ ghost \in {[abs |-> <<>>, net |-> 0, scen |-> sc,
                     pushes |-> IF sc = 0 THEN -1 ELSE 0, failed |-> FALSE]
                    : sc \in {-1, 0}}

\* The ghost after a call that threw, and after one that returned.  The
\* abstract list follows the calls as long as all of them have returned; it
\* is dropped at the first call that throws.
Threw(g) ==
    [g EXCEPT !.abs = <<>>, !.net = 0, !.scen = NextScen, !.failed = TRUE,
              !.pushes = -1]

Returned(g, abs, d, pushes) ==
    IF g.failed THEN [g EXCEPT !.scen = NextScen]
    ELSE [g EXCEPT !.abs = abs, !.net = @ + d, !.scen = NextScen,
                   !.pushes = pushes]

SeqReserve ==
    \E n \in 0..MaxCap, f \in Budgets(MaxLen) :
        /\ Scripted("Reserve", n, 0)
        /\ DoReserve("a", n, f)
        /\ ghost' = IF last'.threw THEN Threw(ghost)
                    ELSE Returned(ghost, ghost.abs, 0, -1)

SeqPushBack ==
    \E arg \in Args(SeqVals), f \in Budgets(MaxLen) :
        /\ Scripted("PushBack", 0, arg.val)
        /\ DoPushBack("a", arg, f, MaxCap)
        /\ ghost' = IF last'.threw THEN Threw(ghost)
                    ELSE Returned(ghost, Append(ghost.abs, arg.val), 1,
                                  IF ghost.pushes >= 0 THEN ghost.pushes + 1 ELSE -1)

SeqInsert ==
    \E pos \in 0..MaxCap, arg \in Args(SeqVals), f \in Budgets(MaxLen) :
        /\ Scripted("Insert", pos, arg.val)
        /\ DoInsert("a", pos, arg, f, MaxCap)
        /\ ghost' = IF last'.threw THEN Threw(ghost)
                    ELSE Returned(ghost, AbsInsert(ghost.abs, pos, arg.val), 1, -1)

SeqPopBack ==
    /\ Scripted("PopBack", 0, 0)
    /\ DoPopBack("a")
    /\ ghost' = Returned(ghost, SubSeq(ghost.abs, 1, Len(ghost.abs) - 1), -1, -1)

SeqErase ==
    \E pos \in 0..MaxCap, f \in Budgets(MaxLen) :
        /\ Scripted("Erase", pos, 0)
        /\ DoErase("a", pos, f)
        /\ ghost' = IF last'.threw THEN Threw(ghost)
                    ELSE Returned(ghost, AbsErase(ghost.abs, pos), -1, -1)

SeqNext ==
    \/ SeqReserve \/ SeqPushBack \/ SeqInsert \/ SeqPopBack \/ SeqErase
    \/ Return

SpecSeq == SeqInit /\ [][SeqNext]_vars

\* ------------------------------------------------------------- RawMemory alone
\* Two RawMemory<T> objects r1 and r2 used directly.
RCommit(m, op, o, w, n) ==
    /\ Commit(m, op, o, w, n)
    /\ UNCHANGED ghost

RawInit ==
    /\ heap = [id \in Blocks |-> NoBlock]
    /\ data_ = [o \in Objs |-> EmptyRaw]
    /\ size_ = [v \in Vecs \cup {"rhs_copy"} |-> 0]
    /\ live = {}
    /\ T = [nothrowMove |-> TRUE, copyable |-> TRUE]
    /\ impl = 1
    /\ last = NoLast
    /\ faults = {}
    /\ ghost = NoGhost

RawDefault ==
    \E o \in Raws :
        /\ Healthy /\ o \notin live
        /\ RCommit(RawMemoryDefault(Machine(0), o), "RawMemory()", o, o, 0)

RawCtor ==
    \E o \in Raws, n \in 0..MaxCap2, f \in {0, Unlimited} :
        /\ Ready(f) /\ o \notin live
        /\ RCommit(RawMemoryCtor(Machine(f), o, n), "RawMemory(n)", o, o, n)

RawMoveCtor ==
    \E o \in Raws, other \in Raws :
        /\ Healthy /\ o \notin live /\ other \in live
        /\ RCommit(RawMemoryMoveCtor(Machine(0), o, other), "RawMemory(&&)", o, other, 0)

RawMoveAssign ==
    \E o \in Raws, rhs \in Raws :
        /\ Healthy /\ o \in live /\ rhs \in live
        /\ RCommit(RawMemoryMoveAssign(Machine(0), o, rhs), "RawMemory=(&&)", o, rhs, 0)

RawSwap ==
    \E o \in Raws, other \in Raws :
        /\ Healthy /\ o \in live /\ other \in live
        /\ RCommit(RawMemorySwap(Machine(0), o, other), "RawMemory::Swap", o, other, 0)

RawDtor ==
    \E o \in Raws :
        /\ Healthy /\ o \in live
        /\ RCommit(RawMemoryDtor(Machine(0), o), "~RawMemory", o, o, 0)

RawNext ==
    \/ RawDefault \/ RawCtor \/ RawMoveCtor \/ RawMoveAssign \/ RawSwap \/ RawDtor
    \/ Return

SpecRaw == RawInit /\ [][RawNext]_vars

\* ------------------------------------------------------------- own elements
\* One vector "a" filled by Reserve and PushBack, then PushBack(a[i]) and
\* Insert(pos, a[i]) with a const reference to one of its own elements; the
\* abstract list inserts the value its element i has.
AliasPushBack ==
    \E arg \in RefArgs("a"), f \in Budgets(MaxLen) :
        /\ Free
        /\ DoPushBack("a", arg, f, MaxCap)
        /\ ghost' = IF last'.threw THEN Threw(ghost)
                    ELSE Returned(ghost, Append(ghost.abs, ghost.abs[arg.val + 1]),
                                  1, -1)

AliasInsert ==
    \E pos \in 0..MaxCap, arg \in RefArgs("a"), f \in Budgets(MaxLen) :
        /\ Free
        /\ DoInsert("a", pos, arg, f, MaxCap)
        /\ ghost' = IF last'.threw THEN Threw(ghost)
                    ELSE Returned(ghost,
                                  AbsInsert(ghost.abs, pos, ghost.abs[arg.val + 1]),
                                  1, -1)

AliasNext ==
    \/ SeqReserve \/ SeqPushBack \/ AliasPushBack \/ AliasInsert
    \/ Return

SpecAlias == SeqInit /\ [][AliasNext]_vars

\* ------------------------------------------------------------- debug build
\* One vector "a" in a build with assertions on, under PushBack and under
\* PopBack called at any size.
DbgPushBack ==
    \E arg \in Args(FreeValues), f \in Budgets(MaxLen) :
        DoPushBack("a", arg, f, MaxCap) /\ UNCHANGED ghost

DbgPopBack == DoPopBackAny("a") /\ UNCHANGED ghost

DbgNext == DbgPushBack \/ DbgPopBack \/ Return

SpecDebug == SeqInit /\ [][DbgNext]_vars

\* ------------------------------------------------------------- claims
\* The state of the program as the caller can compare it before and after.
Same == heap' = heap /\ data_' = data_ /\ size_' = size_ /\ live' = live

\* An operation that ended well-behaved and balanced: every T it constructed
\* it destroyed, every block it allocated it released, nothing was leaked,
\* destroyed twice or released twice.
Balanced(l, fs) == l.objs = 0 /\ l.blocks = 0 /\ l.leaks = {} /\ fs = {}

\* C1: in every reachable state, after operations that returned and after
\* operations that threw alike, Size() <= Capacity() for every vector.
C1_SizeWithinCapacity ==
    \A v \in Vecs : v \in live => size_[v] <= data_[v].capacity_

\* An insertion into a full vector threw and left it full.
C1_Witness ==
    /\ last.op = "Insert" /\ last.threw
    /\ size_[last.v] = data_[last.v].capacity_
    /\ size_[last.v] > 0

\* C2: while every call has returned, the elements of the vector are those
\* of the abstract list driven by the same calls, Size() is the number of
\* insertions minus the number of removals, and the run of Script ends with
\* the elements 99, 2, 3.
C2_RefinesList ==
    ~ghost.failed =>
        /\ Contents("a") = ghost.abs
        /\ size_["a"] = ghost.net
        /\ ghost.scen = Len(Script) =>
               /\ Contents("a") = <<99, 2, 3>>
               /\ size_["a"] = 3

\* The run of Script has made its last call, Erase at index 0.
C2_Witness == ghost.scen = Len(Script) /\ ~ghost.failed /\ last.op = "Erase"

\* The insertion just made took the reallocation path and threw.
ReallocThrew ==
    /\ last'.op \in {"Insert", "PushBack"}
    /\ last'.threw
    /\ size_["a"] = data_["a"].capacity_

\* The block is as it was, but for live elements that have been moved from.
SameOrMovedFrom(new, old) ==
    /\ new.alloc = old.alloc
    /\ Len(new.slots) = Len(old.slots)
    /\ \A i \in 1..Len(old.slots) :
           \/ new.slots[i] = old.slots[i]
           \/ old.slots[i] # Raw /\ new.slots[i] = MovedFrom

\* C3 as stated: an insertion on the reallocation path that fails, whatever
\* the transfer policy, destroys what it constructed in the new buffer,
\* releases the new buffer and leaves the vector's buffer, size, capacity and
\* element values as before the call.
C3_ReallocFailureLeavesVector ==
    [][ReallocThrew => Same /\ Balanced(last', faults')]_vars

\* C3 as amended: the same but for the element values when the transfer is a
\* move that can throw (a move-only element type): then the elements already
\* moved out of the old buffer are left moved from, and nothing else changes.
C3_ReallocFailureRollsBack ==
    [][ReallocThrew =>
        /\ Balanced(last', faults')
        /\ data_' = data_ /\ size_' = size_ /\ live' = live
        /\ IF T.copyable \/ T.nothrowMove THEN heap' = heap
           ELSE \A id \in Blocks : SameOrMovedFrom(heap'[id], heap[id])]_vars

\* A reallocating insertion into a vector of two or more elements threw
\* after it had constructed objects in the new buffer.
C3_Witness ==
    /\ last.op = "Insert" /\ last.threw /\ last.built /\ last.allocs = 1
    /\ size_["a"] = data_["a"].capacity_
    /\ size_["a"] >= 2

\* C4: Reserve(n) with n > Capacity() on a copyable type whose move
\* constructor may throw: when it throws, the vector, its buffer and the heap
\* are as before and the copies made are destroyed and the new buffer is
\* released; when it returns, Capacity() = n and Size() and the elements are
\* as before.
C4_ReserveByCopy ==
    [][(/\ last'.op = "Reserve"
        /\ last'.n > data_["a"].capacity_
        /\ T.copyable /\ ~T.nothrowMove)
       => IF last'.threw
          THEN Same /\ Balanced(last', faults')
          ELSE /\ data_'["a"].capacity_ = last'.n
               /\ size_' = size_
               /\ \A i \in 1..size_["a"] :
                      heap'[data_'["a"].buffer_].slots[i]
                          = heap[data_["a"].buffer_].slots[i]
               /\ live' = live /\ faults' = {}]_vars

\* Reserve threw on a copy after it had copied at least one element.
C4_Witness ==
    /\ last.op = "Reserve" /\ last.threw /\ last.built
    /\ T.copyable /\ ~T.nothrowMove
    /\ size_["a"] >= 2

\* C5: a copy assignment a = b with b.Size() > a.Capacity() that throws
\* leaves a and b, their buffers and the heap as before, and nothing of the
\* temporary copy.
C5_CopyAssignStrong ==
    [][(/\ last'.op = "=(const&)"
        /\ last'.threw
        /\ size_[last'.w] > data_[last'.v].capacity_)
       => Same /\ Balanced(last', faults')]_vars

\* The copy of b threw after at least one element had been copied, and a
\* held elements of its own.
C5_Witness ==
    /\ last.op = "=(const&)" /\ last.threw /\ last.built
    /\ size_[last.w] > data_[last.v].capacity_
    /\ size_[last.v] > 0

\* C6: a sized construction or a copy construction that throws produces no
\* vector, leaves the source and the heap as before, destroys as many
\* elements as it constructed and releases the block it allocated.
C6_FailedConstruction ==
    [][(last'.op \in {"Vector(n)", "Vector(const&)"} /\ last'.threw)
       => Same /\ last'.v \notin live' /\ Balanced(last', faults')]_vars

\* A copy construction threw after at least one element had been copied.
C6_Witness ==
    /\ last.op = "Vector(const&)" /\ last.threw /\ last.built
    /\ last.allocs = 1 /\ last.v \notin live

\* The capacity after k PushBack calls on an empty vector when each call
\* made with size = capacity replaces the capacity c by max(1, 2c).
RECURSIVE GrowthFrom(_, _, _)
GrowthFrom(sz, cap, k) ==
    IF k = 0 THEN cap
    ELSE GrowthFrom(sz + 1,
                    IF sz = cap THEN (IF 2 * cap > 1 THEN 2 * cap ELSE 1) ELSE cap,
                    k - 1)

\* C7: an insertion that returns and was made with Size() = Capacity() sets
\* the capacity to 1 if it was 0 and to twice its value otherwise; one made
\* with Size() < Capacity() leaves the capacity as it was; and after k
\* PushBack calls and nothing else on an empty vector the capacity is that of
\* the doubling rule: 1, 2, 4.
C7_GeometricGrowth ==
    [][/\ (last'.op \in {"Insert", "PushBack"} /\ ~last'.threw)
          => data_'["a"].capacity_ =
                 IF size_["a"] = data_["a"].capacity_
                 THEN (IF data_["a"].capacity_ = 0 THEN 1
                       ELSE 2 * data_["a"].capacity_)
                 ELSE data_["a"].capacity_
       /\ ghost'.pushes >= 0
          => data_'["a"].capacity_ = GrowthFrom(0, 0, ghost'.pushes)]_vars

\* The third PushBack on an empty vector has grown the capacity from 2 to 4.
C7_Witness ==
    /\ ghost.pushes = 3 /\ last.op = "PushBack" /\ last.allocs = 1
    /\ data_["a"].capacity_ = 4

\* C8 as stated: move construction and move assignment from another vector
\* never throw and leave the source with Size() = 0, whatever the target held.
C8_MoveEmptiesSource ==
    (last.op \in {"Vector(&&)", "=(&&)"} /\ last.v # last.w)
        => ~last.threw /\ size_[last.w] = 0

\* C8 as amended: neither throws; move construction leaves the source empty
\* (size 0, capacity 0, no buffer); move assignment leaves the source with
\* the size, capacity and buffer the target had, so the source has size 0
\* exactly when the target had.
C8_MoveSwapsWithSource ==
    [][/\ last'.op = "Vector(&&)"
          => /\ ~last'.threw
             /\ size_'[last'.w] = 0
             /\ data_'[last'.w] = EmptyRaw
             /\ size_'[last'.v] = size_[last'.w]
             /\ data_'[last'.v] = data_[last'.w]
       /\ last'.op = "=(&&)"
          => /\ ~last'.threw
             /\ size_'[last'.w] = size_[last'.v]
             /\ data_'[last'.w] = data_[last'.v]
             /\ size_'[last'.v] = size_[last'.w]
             /\ data_'[last'.v] = data_[last'.w]]_vars

\* A move assignment onto a target that held elements: the source holds them
\* now.
C8_Witness ==
    /\ last.op = "=(&&)" /\ last.v # last.w
    /\ size_[last.w] > 0 /\ size_[last.v] > 0
    /\ size_[last.w] # size_[last.v]

\* C9: Reserve(n) with n <= Capacity() allocates nothing, does not throw and
\* leaves the capacity, the size, the buffer and every slot as they were.
C9_ReserveNoOp ==
    [][(last'.op = "Reserve" /\ last'.n <= data_["a"].capacity_)
       => /\ ~last'.threw
          /\ last'.allocs = 0
          /\ Same /\ Balanced(last', faults')]_vars

\* Reserve(n) with n = Capacity() on a vector that holds elements.
C9_Witness ==
    /\ last.op = "Reserve" /\ ~last.threw /\ last.allocs = 0
    /\ last.n = data_["a"].capacity_
    /\ size_["a"] > 0

\* C10: every RawMemory move transfer, by construction and by assignment,
\* leaves the destination with the handle and capacity of the source and the
\* source empty, so that no block is held by two RawMemory objects.
C10_MoveTransfersOwnership ==
    [][(last'.op \in {"RawMemory(&&)", "RawMemory=(&&)"} /\ last'.v # last'.w)
       => /\ data_'[last'.v] = data_[last'.w]
          /\ data_'[last'.w] = EmptyRaw
          /\ \A o1 \in live', o2 \in live' :
                 (o1 # o2 /\ data_'[o1].buffer_ = data_'[o2].buffer_)
                     => data_'[o1].buffer_ = Null]_vars

\* C11: PopBack called with Size() = 0 stops at the assertion before it has
\* changed anything, in both copies of the container: no object is destroyed
\* before the buffer and the size does not wrap around.
C11_PopBackEmptyAsserts ==
    [][(last'.op = "PopBack" /\ size_["a"] = 0)
       => Same /\ faults' = {AssertFailed} /\ last'.objs = 0]_vars

\* Slots [0, size_) of the buffer of v hold objects and slots
\* [size_, capacity) hold none.
SlotsMatchSize(v) ==
    \A i \in 1..data_[v].capacity_ :
        (heap[data_[v].buffer_].slots[i] # Raw) <=> (i <= size_[v])

\* C12: at every operation boundary, after a return and after a throw, the
\* slots [0, size) of every vector hold live elements and the slots
\* [size, capacity) hold no live element.
C12_LiveExactlyBelowSize ==
    faults = {} => \A v \in Vecs : v \in live => SlotsMatchSize(v)

\* C13: an insertion that returns has increased Size() by exactly one and an
\* insertion that throws has left Size() as it was, on the in-place path and
\* on the reallocation path.
C13_SizeCountsInsertions ==
    [][(last'.op \in {"Insert", "PushBack"})
       => size_'["a"] = size_["a"] + (IF last'.threw THEN 0 ELSE 1)]_vars

\* An in-place insertion in the middle threw after it had constructed the
\* temporary and the new last element.
C13_Witness ==
    /\ last.op = "Insert" /\ last.threw /\ last.allocs = 0 /\ last.built
    /\ size_["a"] < data_["a"].capacity_
    /\ heap[data_["a"].buffer_].slots[size_["a"] + 1] # Raw

\* The first n element values in the buffer d of heap h.
Elems(h, d, n) == [i \in 1..n |-> h[d.buffer_].slots[i]]

\* C14: a Resize(n) with n > Size() that throws, in the allocation or in the
\* construction of a new tail element, leaves Size(), Capacity() and every
\* element value as before the call.
C14_ResizeTransactional ==
    [][(last'.op = "Resize" /\ last'.threw /\ last'.n > size_[last'.v])
       => /\ size_'[last'.v] = size_[last'.v]
          /\ data_'[last'.v].capacity_ = data_[last'.v].capacity_
          /\ Elems(heap', data_'[last'.v], size_[last'.v])
                 = Elems(heap, data_[last'.v], size_[last'.v])]_vars

\* C15: a copy assignment a = b that returns makes the size and the elements
\* of a those of b and leaves b as it was; a = a changes nothing; with
\* b.Size() <= a.Capacity() the buffer and capacity of a stay and the surplus
\* tail [b.Size(), old a.Size()) is destroyed; with b.Size() > a.Capacity()
\* a gets another buffer of capacity b.Size().
C15_CopyAssignCopies ==
    [][(last'.op = "=(const&)" /\ ~last'.threw)
       => LET a == last'.v
              b == last'.w
          IN /\ size_'[a] = size_[b]
             /\ Elems(heap', data_'[a], size_[b]) = Elems(heap, data_[b], size_[b])
             /\ size_'[b] = size_[b] /\ data_'[b] = data_[b]
             /\ Elems(heap', data_'[b], size_[b]) = Elems(heap, data_[b], size_[b])
             /\ a = b => Same /\ last'.objs = 0
             /\ last'.objs = size_[b] - size_[a]
             /\ faults' = {}
             /\ IF size_[b] <= data_[a].capacity_
                THEN /\ data_'[a] = data_[a]
                     /\ last'.allocs = 0
                     /\ \A i \in (size_[b] + 1)..size_[a] :
                            heap'[data_'[a].buffer_].slots[i] = Raw
                ELSE /\ data_'[a].capacity_ = size_[b]
                     /\ data_'[a].buffer_ # data_[a].buffer_
                     /\ last'.allocs = 1]_vars

\* A copy assignment from a shorter vector into a longer one returned: the
\* buffer was reused and the surplus element destroyed.
C15_Witness ==
    /\ last.op = "=(const&)" /\ ~last.threw /\ last.v # last.w
    /\ last.objs < 0 /\ last.allocs = 0
    /\ size_[last.v] > 0

\* C16: Swap(a, b) and a = std::move(b) exchange the buffers, capacities and
\* sizes of the two vectors, hence their elements; nothing on the heap
\* changes, no element is constructed or destroyed, no block is allocated or
\* released; with a and b the same vector nothing changes at all.
C16_SwapExchanges ==
    [][(last'.op \in {"Swap", "=(&&)"})
       => /\ ~last'.threw
          /\ data_'[last'.v] = data_[last'.w] /\ data_'[last'.w] = data_[last'.v]
          /\ size_'[last'.v] = size_[last'.w] /\ size_'[last'.w] = size_[last'.v]
          /\ heap' = heap /\ live' = live
          /\ ~last'.built /\ last'.allocs = 0
          /\ Balanced(last', faults')
          /\ last'.v = last'.w => Same]_vars

\* Two vectors of different sizes, both with elements, have been swapped.
C16_Witness ==
    /\ last.op = "Swap" /\ last.v # last.w
    /\ size_[last.v] > 0 /\ size_[last.w] > size_[last.v]

\* C17: from every state either copy of the container reaches between calls
\* (the state does not depend on what the last call is noted as), every call
\* made within its precondition, with a throw injected at any step, has the
\* same outcome in vector.h and in part_000: the same heap, buffer, size and
\* capacity, the same numbers of objects constructed and destroyed and of
\* blocks allocated and released, the same exception or the same position
\* returned.
C17_SameInBothCopies ==
    (Healthy /\ "a" \in live) =>
        /\ \A pos \in 0..size_["a"], arg \in Args(SeqVals), f \in Budgets(MaxLen) :
               (CanAllocate(Machine(f)) /\ CanInsert("a", pos, arg, MaxCap))
                   => Emplace(Machine(f), "a", pos, arg)
                          = Emplace2(Machine(f), "a", pos, arg)
        /\ \A pos \in 0..(size_["a"] - 1), f \in Budgets(MaxLen) :
               Erase(Machine(f), "a", pos) = Erase2(Machine(f), "a", pos)
        /\ size_["a"] > 0 => PopBack(Machine(0), "a") = PopBack2(Machine(0), "a")

\* A state from which an insertion in the middle of a full vector throws in
\* the transfer of the suffix, after the new element and the prefix have been
\* built in the new buffer, and both copies roll back the same objects.
C17_Witness ==
    /\ faults = {} /\ last.op = "none" /\ size_["a"] = data_["a"].capacity_
    /\ \E pos \in 1..(size_["a"] - 1), arg \in Args(SeqVals), f \in Budgets(MaxLen) :
           /\ CanAllocate(Machine(f)) /\ CanInsert("a", pos, arg, MaxCap)
           /\ LET r == Emplace2(Machine(f), "a", pos, arg) IN
                  /\ r.threw /\ r.dtor >= 2 /\ r.allocs = 1
                  /\ r = Emplace(Machine(f), "a", pos, arg)

\* The objects that hold block id.
Owners(id) == {o \in live : data_[o].buffer_ = id}

\* C18: at every operation boundary every allocated block is held by exactly
\* one RawMemory object, no block has been released twice, no block has been
\* released while an element in it was alive, and when no vector is left no
\* block is allocated.
C18_BlocksOwnedOnce ==
    /\ \A id \in Blocks : heap[id].alloc => Cardinality(Owners(id)) = 1
    /\ \A o \in live : data_[o].buffer_ # Null => heap[data_[o].buffer_].alloc
    /\ "double_free" \notin faults
    /\ "release_live" \notin last.leaks
    /\ live = {} => \A id \in Blocks : ~heap[id].alloc

\* C19: while every call has returned, after PushBack(a[i]) and
\* Insert(pos, a[i]) with a const reference to an element of the vector
\* itself, in place and with reallocation, the vector holds what the abstract
\* list holds: a copy of the value element i had before the call at the
\* position of the insertion, the other elements in their order.
C19_InsertsOwnElement ==
    (~ghost.failed /\ Free) =>
        /\ Contents("a") = ghost.abs
        /\ \A i \in 1..size_["a"] : Contents("a")[i] \in FreeValues

\* Insert(begin, a[1]) in place into a vector of two different values has
\* put a copy of the second in front of both.
C19_Witness ==
    /\ last.op = "Insert" /\ last.n = 0 /\ ~last.threw /\ last.allocs = 0
    /\ ~ghost.failed /\ Free
    /\ Contents("a") = <<2, 1, 2>>

====
